---- MODULE Spec2Model ----
\* File transfer over a stream connection: the client's send state machine
\* (src/client/client.go), the server's accept loop, signal watcher and
\* per-connection receive state machine (src/unnamed/part_000), and the
\* length-prefixed framing codec both sides use.
EXTENDS Integers, Sequences, FiniteSets, TLC

\* ---------------------------------------------------------------- bounds

\* Longest payload of the codec specification.
MaxLen == 7
\* The transfer buffer size (1024 * 1024 in both programs), scaled down so that
\* a payload of MaxLen bytes is sent in more than one chunk.
bufferSize == 6
\* The buffer of bufio.NewReader (4096 bytes by default), scaled down; it stays
\* above the 4 bytes of a length prefix and at most bufferSize, as in the code.
BufioSize == 5
\* How many interrupt signals the environment delivers.
MaxSignals == 1
\* How many Reads of the connection return fewer bytes than are pending.
MaxShortReads == 1

\* The largest file count a peer declares, and the most File Units it sends,
\* in the sessions with an arbitrary peer.
MaxDeclared == 2

MaxPeerUnits == 3

\* ---------------------------------------------------------------- helpers

Min(a, b) == IF a < b THEN a ELSE b

Take(s, n) == SubSeq(s, 1, n)

Drop(s, n) == SubSeq(s, n + 1, Len(s))

Range(s) == {s[i] : i \in 1..Len(s)}

\* ------------------------------------------------------------ the codec

\* binary.BigEndian.PutUint32(b, v): b[0] = byte(v >> 24), b[1] = byte(v >> 16),
\* b[2] = byte(v >> 8), b[3] = byte(v).
PutUint32LittleEndian(v) == <<v % 256, (v \div 256) % 256, (v \div 65536) % 256, (v \div 16777216) % 256>>

PutUint32(v) == <<(v \div 16777216) % 256, (v \div 65536) % 256, (v \div 256) % 256, v % 256>>

\* binary.BigEndian.Uint32(b): b[3] | b[2]<<8 | b[1]<<16 | b[0]<<24.
Uint32(b) == ((b[1] * 256 + b[2]) * 256 + b[3]) * 256 + b[4]

\* sendInt's bytes: uint32(int32(num)) in big-endian order. The model's integers
\* are 0 .. 2^31-1 (sendInt is only called with a length), where the two
\* conversions are the identity.
SendIntBytes(num) == PutUint32(num)

\* One chunk of sendBytes' loop: data[start:end] with end = min(start + bufferSize, len)
\* (start counts from 0 as in the code).
Chunk(data, start) == SubSeq(data, start + 1, Min(start + bufferSize, Len(data)))

\* The writes of sendBytes in order: the length prefix, then each chunk.
RECURSIVE ChunkList(_, _)
ChunkList(data, start) == IF start < Len(data) THEN <<Chunk(data, start)>> \o ChunkList(data, start + bufferSize) ELSE <<>>

SendBytesWrites(data) == <<SendIntBytes(Len(data))>> \o ChunkList(data, 0)

RECURSIVE Flatten(_)
Flatten(ss) == IF ss = <<>> THEN <<>> ELSE Head(ss) \o Flatten(Tail(ss))

\* The bytes a successful sendBytes(data) puts on the connection.
SendBytesWire(data) == Flatten(SendBytesWrites(data))

\* receivedByte := make([]byte, 4); reader.Read(receivedByte): the bytes the read
\* did not fill stay zero.
Pad4(got) == got \o [i \in 1..(4 - Len(got)) |-> 0]

\* The sizes a Read of the connection may return when asked for cap bytes of the
\* avail pending ones: all it can give, or (while short reads are left to the
\* environment) any smaller number of bytes, at least one.
ConnReadSizes(cap, avail, mayShort) == IF mayShort THEN 1..Min(cap, avail) ELSE {Min(cap, avail)}

\* bufio.Reader.Read(p) with len(p) = L >= 1 on a reader whose buffer holds buf,
\* over a connection with the bytes w pending: at most one Read of the connection.
\*   buffer not empty: copies min(L, buffered) bytes;
\*   buffer empty, L >= buffer size: one connection Read straight into p;
\*   buffer empty otherwise: one connection Read into the buffer, then the copy.
\* With nothing pending the connection Read blocks (no outcome), ends with EOF
\* once the peer closed, or fails when the connection broke.
\* short: the connection Read returned fewer bytes than it could have.
ReaderRead(buf, w, closed, broken, mayShort, L) ==
    IF buf # <<>>
    THEN {[got |-> Take(buf, Min(L, Len(buf))), buf |-> Drop(buf, Min(L, Len(buf))), wire |-> w, err |-> "nil", short |-> FALSE]}
    ELSE IF w # <<>>
    THEN IF L >= BufioSize
         THEN {[got |-> Take(w, n), buf |-> <<>>, wire |-> Drop(w, n), err |-> "nil", short |-> n < Min(L, Len(w))] : n \in ConnReadSizes(L, Len(w), mayShort)}
         ELSE {[got |-> Take(w, Min(L, n)), buf |-> SubSeq(w, Min(L, n) + 1, n), wire |-> Drop(w, n), err |-> "nil", short |-> n < Min(BufioSize, Len(w))] : n \in ConnReadSizes(BufioSize, Len(w), mayShort)}
    ELSE {[got |-> <<>>, buf |-> <<>>, wire |-> w, err |-> "EOF", short |-> FALSE] : x \in {1} \cap (IF closed THEN {1} ELSE {})}
         \cup {[got |-> <<>>, buf |-> <<>>, wire |-> w, err |-> "reset", short |-> FALSE] : x \in {1} \cap (IF broken THEN {1} ELSE {})}

\* receiveInt: one Read of a zeroed 4-byte slice, the count it returns ignored;
\* (-1, err) on an error, else the big-endian value of the slice.
ReceiveInt(buf, w, closed, broken, mayShort) ==
    {[val |-> IF o.err = "nil" THEN Uint32(Pad4(o.got)) ELSE -1, n |-> Len(o.got), err |-> o.err, buf |-> o.buf, wire |-> o.wire, short |-> o.short] : o \in ReaderRead(buf, w, closed, broken, mayShort, 4)}

\* One reader.Read of receiveBytes. phase "size": the receiveInt that learns the
\* size (size 0 returns the empty slice at once); phase "data": one pass of the
\* loop, reading min(bufferSize, remaining) bytes. done: receiveBytes returned.
ReceiveBytesStep(phase, size, data, buf, w, closed, broken, mayShort) ==
    IF phase = "size"
    THEN {[done |-> r.err # "nil" \/ r.val = 0, err |-> r.err, phase |-> "data", size |-> r.val, data |-> <<>>, n |-> r.n, buf |-> r.buf, wire |-> r.wire, short |-> r.short] : r \in ReceiveInt(buf, w, closed, broken, mayShort)}
    ELSE {[done |-> o.err # "nil" \/ Len(data) + Len(o.got) >= size, err |-> o.err, phase |-> "data", size |-> size, data |-> IF o.err = "nil" THEN data \o o.got ELSE <<>>, n |-> Len(o.got), buf |-> o.buf, wire |-> o.wire, short |-> o.short] : o \in ReaderRead(buf, w, closed, broken, mayShort, Min(bufferSize, size - Len(data)))}

\* ---------------------------------------------------------------- state

VARIABLES
    \* the connection, client to server
    wire,        \* bytes written by the client and not yet read by the server
    rbuf,        \* the bytes held in the server's bufio.Reader
    rbPhase,     \* receiveBytes in progress: "size" before its receiveInt, then "data"
    rbSize,      \* receiveBytes' size
    rbData,      \* receiveBytes' data[:received]
    shortReads,  \* how many Reads of the connection came back short
    \* the codec on its own: one sendInt/receiveInt or sendBytes/receiveBytes pair
    cdMode,      \* "int" or "bytes"
    cdNum,       \* the integer given to sendInt
    cdData,      \* the slice given to sendBytes
    cdWrites,    \* the sender's writes still to come
    cdWritten,   \* every byte the sender wrote so far
    cdRecv,      \* the receiver: "run", then "ok" or "err"
    cdGot,       \* how many bytes receiveInt's Read returned
    cdVal,       \* what the receiver returned
    \* the client (ClientFSM)
    cArgs,       \* os.Args[1:]
    cState,      \* currentState; "Returned" once Run has returned
    cIp,         \* ip
    cFileNames,  \* fileNames
    cCurrentFile, \* currentFile
    cCon,        \* con: "nil", "open" or "closed"
    cFile,       \* file: "nil", "open" or "closed"
    cErr,        \* err
    cLog,        \* the lines the client printed
    cSent,       \* the blobs the client wrote completely, in order
    conn,        \* the connection at the server: "none", "backlog", "accepted", "handled", "dropped"
    conBroken,   \* a write of the client failed: the connection is broken
    \* the server's accept loop (ServerFSM) and its signal watcher
    sArgs,       \* os.Args[1:]
    sState,      \* currentState
    sMainPc,     \* Run: "run" between two state functions, "accept" blocked in Accept,
                 \* "accepted" after Accept returned a connection, "returned" after Run
    shouldRun,   \* shouldRun
    sIp,         \* ip
    sStorageDir, \* storageDir
    listener,    \* listener: "nil", "open" or "closed"
    sigChan,     \* how many signals sigChan holds (capacity 1)
    sigCount,    \* how many signals were delivered
    wPc,         \* handleSignal: "none", "wait", "close", "store", "setstate", "done"
    sErr,        \* err
    termVia,     \* who wrote Termination into currentState last
    procExited,  \* main returned: the server process is gone
    accShouldRun, \* what shouldRun held when Accept last returned a connection; -1 before
    \* the receive state machine of the accepted connection (HandleClientFSM)
    hState,      \* currentState; "none" before the handler is spawned
    hRunning,    \* Run has not returned
    hNumFiles,   \* numFiles
    hCurrentFile, \* currentFile
    hFileName,   \* fileName
    hFileContent, \* fileContent
    hErr,        \* err
    hLog,        \* the error reports the handler printed
    hConClosed,  \* the handler closed its connection
    storage,     \* the storage directory: a set of [name, content], one per name
    written      \* the files the handler wrote, in order

netVars == <<wire, rbuf, rbPhase, rbSize, rbData, shortReads>>

cdVars == <<cdMode, cdNum, cdData, cdWrites, cdWritten, cdRecv, cdGot, cdVal>>

clientVars == <<cArgs, cState, cIp, cFileNames, cCurrentFile, cCon, cFile, cErr, cLog, cSent>>

serverVars == <<sArgs, sState, sMainPc, shouldRun, sIp, sStorageDir, listener, sigChan, sigCount, wPc, sErr, termVia, procExited, accShouldRun>>

handlerVars == <<hState, hRunning, hNumFiles, hCurrentFile, hFileName, hFileContent, hErr, hLog, hConClosed, storage, written>>

sysVars == <<clientVars, conn, conBroken, serverVars, handlerVars>>

vars == <<netVars, cdVars, sysVars>>

\* ------------------------------------------------------------ the inputs

\* The number of command-line arguments both programs check against.
arguments == 3

\* The hosts given on the command lines, and those that contain a colon.
Hosts == {"::1"}

ColonHosts == {"::1"}

\* The client's file system: the paths that may be named on its command line.
\* kind "file": opens and reads; "dir": opens, and os.ReadFile fails on it;
\* "missing": os.Open fails. base: the bytes of fileInfo.Name().
Paths == {"d1/a", "d2/a", "b", "dir", "nofile"}

PathKind(p) == CASE p = "dir" -> "dir" [] p = "nofile" -> "missing" [] OTHER -> "file"

BaseName(p) == CASE p = "d1/a" -> <<97>> [] p = "d2/a" -> <<97>> [] p = "b" -> <<98>> [] p = "dir" -> <<100>> [] OTHER -> <<110>>

FileData(p) == CASE p = "d1/a" -> <<1>> [] p = "d2/a" -> <<2>> [] OTHER -> <<>>

\* The file lists of the client's command lines: none, one file of each kind,
\* and the pairs in which both files are sent (with different and with equal
\* base names) or the first of the two fails to open or to read.
FileLists == {<<>>, <<"d1/a">>, <<"nofile">>, <<"dir">>, <<"d1/a", "b">>, <<"d1/a", "d2/a">>, <<"nofile", "b">>, <<"dir", "b">>}

\* The client's command lines: a host, a port and the paths.
ClientArgs == {<<h, "9000">> \o fs : h \in Hosts, fs \in FileLists}

\* The server's command lines: a host, a port and a storage directory, or one
\* argument too few.
ServerArgs == {<<h, "9000", "store">> : h \in Hosts} \cup {<<h, "9000">> : h \in Hosts}

\* The state of the system's variables while only the codec runs.
InitIdleSystem ==
    /\ cArgs = <<>>
    /\ cState = "Returned"
    /\ cIp = ""
    /\ cFileNames = <<>>
    /\ cCurrentFile = 0
    /\ cCon = "nil"
    /\ cFile = "nil"
    /\ cErr = "nil"
    /\ cLog = <<>>
    /\ cSent = <<>>
    /\ conn = "none"
    /\ conBroken = FALSE
    /\ sArgs = <<>>
    /\ sState = "Termination"
    /\ sMainPc = "returned"
    /\ shouldRun = 1
    /\ sIp = ""
    /\ sStorageDir = ""
    /\ listener = "nil"
    /\ sigChan = 0
    /\ sigCount = 0
    /\ wPc = "none"
    /\ sErr = "nil"
    /\ termVia = "none"
    /\ procExited = TRUE
    /\ accShouldRun = -1
    /\ hState = "none"
    /\ hRunning = FALSE
    /\ hNumFiles = 0
    /\ hCurrentFile = 0
    /\ hFileName = <<>>
    /\ hFileContent = <<>>
    /\ hErr = "nil"
    /\ hLog = <<>>
    /\ hConClosed = FALSE
    /\ storage = {}
    /\ written = <<>>

\* The state of the codec's variables while the system runs.
InitIdleCodec ==
    /\ cdMode = "none"
    /\ cdNum = 0
    /\ cdData = <<>>
    /\ cdWrites = <<>>
    /\ cdWritten = <<>>
    /\ cdRecv = "idle"
    /\ cdGot = 0
    /\ cdVal = <<>>

\* ------------------------------------------------- the codec on its own

\* The integers handed to sendInt: the ends of the range, and the values around
\* each byte boundary.
IntInputs == {0, 1, 255, 256, 258, 65535, 65536, 66051, 16777215, 16777216, 16909060, 2147483646, 2147483647}

\* The payloads handed to sendBytes: every length up to MaxLen, the bytes of a
\* payload all different.
DataInputs == {[i \in 1..n |-> i] : n \in 0..MaxLen} \cup {[i \in 1..n |-> 0] : n \in 1..2}

InitNet ==
    /\ wire = <<>>
    /\ rbuf = <<>>
    /\ rbPhase = "size"
    /\ rbSize = 0
    /\ rbData = <<>>
    /\ shortReads = 0

\* Whether the environment may still cut a Read of the connection short.
MayShort == shortReads < MaxShortReads

Shorts(short) == shortReads + (IF short THEN 1 ELSE 0)

InitCodec ==
    /\ InitNet
    /\ \/ /\ cdMode = "int"
          /\ cdNum \in IntInputs
          /\ cdData = <<>>
          /\ cdWrites = <<SendIntBytes(cdNum)>>
       \/ /\ cdMode = "bytes"
          /\ cdNum = 0
          /\ cdData \in DataInputs
          /\ cdWrites = SendBytesWrites(cdData)
    /\ cdWritten = <<>>
    /\ cdRecv = "run"
    /\ cdGot = 0
    /\ cdVal = <<>>
    /\ InitIdleSystem

\* The sender's next writer.Write and writer.Flush: the slice reaches the connection.
CodecWrite ==
    /\ cdWrites # <<>>
    /\ wire' = wire \o Head(cdWrites)
    /\ cdWritten' = cdWritten \o Head(cdWrites)
    /\ cdWrites' = Tail(cdWrites)
    /\ UNCHANGED <<rbuf, rbPhase, rbSize, rbData, shortReads, cdMode, cdNum, cdData, cdRecv, cdGot, cdVal, sysVars>>

\* receiveInt on the stream.
CodecReceiveInt ==
    /\ cdMode = "int"
    /\ cdRecv = "run"
    /\ \E r \in ReceiveInt(rbuf, wire, FALSE, FALSE, MayShort) :
        /\ shortReads' = Shorts(r.short)
        /\ cdRecv' = IF r.err = "nil" THEN "ok" ELSE "err"
        /\ cdGot' = r.n
        /\ cdVal' = r.val
        /\ rbuf' = r.buf
        /\ wire' = r.wire
    /\ UNCHANGED <<rbPhase, rbSize, rbData, cdMode, cdNum, cdData, cdWrites, cdWritten, sysVars>>

\* receiveBytes on the stream, one reader.Read at a time.
CodecReceiveBytes ==
    /\ cdMode = "bytes"
    /\ cdRecv = "run"
    /\ \E s \in ReceiveBytesStep(rbPhase, rbSize, rbData, rbuf, wire, FALSE, FALSE, MayShort) :
        /\ shortReads' = Shorts(s.short)
        /\ cdRecv' = IF ~s.done THEN "run" ELSE IF s.err = "nil" THEN "ok" ELSE "err"
        /\ cdGot' = IF rbPhase = "size" THEN s.n ELSE cdGot
        /\ cdVal' = IF s.done /\ s.err = "nil" THEN s.data ELSE cdVal
        /\ rbPhase' = s.phase
        /\ rbSize' = s.size
        /\ rbData' = s.data
        /\ rbuf' = s.buf
        /\ wire' = s.wire
    /\ UNCHANGED <<cdMode, cdNum, cdData, cdWrites, cdWritten, sysVars>>

NextCodec == CodecWrite \/ CodecReceiveInt \/ CodecReceiveBytes

SpecCodec == InitCodec /\ [][NextCodec]_vars

\* ------------------------------------------------------------ the client

\* A sendBytes(data) that fails at its k-th write (the length prefix is the
\* first): the writes before it reached the connection.
SendBytesPartial(data, k) == Flatten(SubSeq(SendBytesWrites(data), 1, k - 1))

ClientValidateArgsState ==
    /\ cState = "ValidateArgs"
    /\ IF Len(cArgs) < arguments
       THEN /\ cErr' = "args"
            /\ cState' = "HandleFatalError"
            /\ UNCHANGED <<cIp, cFileNames>>
       ELSE /\ cIp' = cArgs[1]
            /\ cFileNames' = SubSeq(cArgs, 3, Len(cArgs))
            /\ cState' = "ParseIP"
            /\ UNCHANGED cErr
    /\ UNCHANGED <<cArgs, cCurrentFile, cCon, cFile, cLog, cSent, conn, conBroken, netVars, cdVars, serverVars, handlerVars>>

ClientParseIPState ==
    /\ cState = "ParseIP"
    /\ cIp' = IF cIp \in ColonHosts THEN "[" \o cIp \o "]" ELSE cIp
    /\ cState' = "ConnetServer"
    /\ UNCHANGED <<cArgs, cFileNames, cCurrentFile, cCon, cFile, cErr, cLog, cSent, conn, conBroken, netVars, cdVars, serverVars, handlerVars>>

\* net.Dial succeeds only while the server listens; the connection then waits
\* in the listener's backlog.
ConnetServerState ==
    /\ cState = "ConnetServer"
    /\ \/ /\ listener = "open"
          /\ ~procExited
          /\ conn = "none"
          /\ conn' = "backlog"
          /\ cCon' = "open"
          /\ cState' = "SendFileCount"
          /\ UNCHANGED cErr
       \/ /\ cErr' = "dial"
          /\ cState' = "HandleFatalError"
          /\ UNCHANGED <<conn, cCon>>
    /\ UNCHANGED <<cArgs, cIp, cFileNames, cCurrentFile, cFile, cLog, cSent, conBroken, netVars, cdVars, serverVars, handlerVars>>

\* A SendFileCountState that declares only the files that will open.
SendFileCountStateOpenable ==
    /\ cState = "SendFileCount"
    /\ wire' = wire \o SendIntBytes(Cardinality({i \in 1..Len(cFileNames) : PathKind(cFileNames[i]) # "missing"}))
    /\ cSent' = Append(cSent, [kind |-> "count", file |-> 0])
    /\ cCurrentFile' = 0
    /\ cState' = "OpenFile"
    /\ UNCHANGED <<cErr, conBroken>>
    /\ UNCHANGED <<cArgs, cIp, cFileNames, cCon, cFile, cLog, conn, rbuf, rbPhase, rbSize, rbData, shortReads, cdVars, serverVars, handlerVars>>

SendFileCountState ==
    /\ cState = "SendFileCount"
    /\ \/ /\ wire' = wire \o SendIntBytes(Len(cFileNames))
          /\ cSent' = Append(cSent, [kind |-> "count", file |-> 0])
          /\ cCurrentFile' = 0
          /\ cState' = "OpenFile"
          /\ UNCHANGED <<cErr, conBroken>>
       \/ /\ cErr' = "send"
          /\ conBroken' = TRUE
          /\ cState' = "HandleFatalError"
          /\ UNCHANGED <<wire, cSent, cCurrentFile>>
    /\ UNCHANGED <<cArgs, cIp, cFileNames, cCon, cFile, cLog, conn, rbuf, rbPhase, rbSize, rbData, shortReads, cdVars, serverVars, handlerVars>>

OpenFileState ==
    /\ cState = "OpenFile"
    /\ IF PathKind(cFileNames[cCurrentFile + 1]) = "missing"
       THEN /\ cErr' = "open"
            /\ cFile' = "nil"
            /\ cState' = "HandleError"
       ELSE /\ cErr' = "nil"
            /\ cFile' = "open"
            /\ cState' = "SendFileName"
    /\ UNCHANGED <<cArgs, cIp, cFileNames, cCurrentFile, cCon, cLog, cSent, conn, conBroken, netVars, cdVars, serverVars, handlerVars>>

SendFileNameState ==
    /\ cState = "SendFileName"
    /\ LET fname == BaseName(cFileNames[cCurrentFile + 1]) IN
       \/ /\ cErr' = "stat"
          /\ cFile' = "closed"
          /\ cState' = "HandleError"
          /\ UNCHANGED <<wire, cSent, conBroken>>
       \/ /\ wire' = wire \o SendBytesWire(fname)
          /\ cSent' = Append(cSent, [kind |-> "name", file |-> cCurrentFile + 1])
          /\ cErr' = "nil"
          /\ cState' = "ReadAndSendFileData"
          /\ UNCHANGED <<cFile, conBroken>>
       \/ \E k \in 1..Len(SendBytesWrites(fname)) :
          /\ wire' = wire \o SendBytesPartial(fname, k)
          /\ cErr' = "send"
          /\ conBroken' = TRUE
          /\ cFile' = "closed"
          /\ cState' = "HandleFatalError"
          /\ UNCHANGED cSent
    /\ UNCHANGED <<cArgs, cIp, cFileNames, cCurrentFile, cCon, cLog, conn, rbuf, rbPhase, rbSize, rbData, shortReads, cdVars, serverVars, handlerVars>>

ReadAndSendFileDataState ==
    /\ cState = "ReadAndSendFileData"
    /\ LET path == cFileNames[cCurrentFile + 1]
           fileData == FileData(path) IN
       IF PathKind(path) # "file"
       THEN /\ cErr' = "read"
            /\ cFile' = "closed"
            /\ cState' = "HandleError"
            /\ UNCHANGED <<wire, cSent, conBroken, cLog, cCurrentFile>>
       ELSE \/ /\ wire' = wire \o SendBytesWire(fileData)
               /\ cSent' = Append(cSent, [kind |-> "content", file |-> cCurrentFile + 1])
               /\ cErr' = "nil"
               /\ cFile' = "closed"
               /\ cLog' = Append(cLog, [line |-> "Sent file", file |-> cCurrentFile + 1])
               /\ cCurrentFile' = cCurrentFile + 1
               /\ cState' = "SendNextFile"
               /\ UNCHANGED conBroken
            \/ \E k \in 1..Len(SendBytesWrites(fileData)) :
               /\ wire' = wire \o SendBytesPartial(fileData, k)
               /\ cErr' = "send"
               /\ conBroken' = TRUE
               /\ cFile' = "closed"
               /\ cState' = "HandleFatalError"
               /\ UNCHANGED <<cSent, cLog, cCurrentFile>>
    /\ UNCHANGED <<cArgs, cIp, cFileNames, cCon, conn, rbuf, rbPhase, rbSize, rbData, shortReads, cdVars, serverVars, handlerVars>>

SendNextFileState ==
    /\ cState = "SendNextFile"
    /\ cState' = IF cCurrentFile >= Len(cFileNames) THEN "Terminate" ELSE "OpenFile"
    /\ UNCHANGED <<cArgs, cIp, cFileNames, cCurrentFile, cCon, cFile, cErr, cLog, cSent, conn, conBroken, netVars, cdVars, serverVars, handlerVars>>

\* A HandleFatalErrorState that treats the error as HandleFileError does.
HandleFatalErrorStateSkip ==
    /\ cState = "HandleFatalError"
    /\ cLog' = Append(cLog, [line |-> "Fatal Error", file |-> 0])
    /\ cCurrentFile' = cCurrentFile + 1
    /\ cState' = "SendNextFile"
    /\ UNCHANGED <<cArgs, cIp, cFileNames, cCon, cFile, cErr, cSent, conn, conBroken, netVars, cdVars, serverVars, handlerVars>>

HandleFatalErrorState ==
    /\ cState = "HandleFatalError"
    /\ cLog' = Append(cLog, [line |-> "Fatal Error", file |-> 0])
    /\ cState' = "Terminate"
    /\ UNCHANGED <<cArgs, cIp, cFileNames, cCurrentFile, cCon, cFile, cErr, cSent, conn, conBroken, netVars, cdVars, serverVars, handlerVars>>

\* A HandleFileError without the increment of currentFile.
HandleFileErrorNoAdvance ==
    /\ cState = "HandleError"
    /\ cLog' = Append(cLog, [line |-> "Error", file |-> cCurrentFile + 1])
    /\ cState' = "SendNextFile"
    /\ UNCHANGED <<cArgs, cIp, cFileNames, cCurrentFile, cCon, cFile, cErr, cSent, conn, conBroken, netVars, cdVars, serverVars, handlerVars>>

HandleFileError ==
    /\ cState = "HandleError"
    /\ cLog' = Append(cLog, [line |-> "Error", file |-> cCurrentFile + 1])
    /\ cCurrentFile' = cCurrentFile + 1
    /\ cState' = "SendNextFile"
    /\ UNCHANGED <<cArgs, cIp, cFileNames, cCon, cFile, cErr, cSent, conn, conBroken, netVars, cdVars, serverVars, handlerVars>>

\* TerminateState, after which Run returns.
TerminateState ==
    /\ cState = "Terminate"
    /\ cCon' = IF cCon # "nil" THEN "closed" ELSE cCon
    /\ cLog' = Append(cLog, [line |-> "Client Exiting", file |-> 0])
    /\ cState' = "Returned"
    /\ UNCHANGED <<cArgs, cIp, cFileNames, cCurrentFile, cFile, cErr, cSent, conn, conBroken, netVars, cdVars, serverVars, handlerVars>>

ClientRun ==
    \/ ClientValidateArgsState
    \/ ClientParseIPState
    \/ ConnetServerState
    \/ SendFileCountState
    \/ OpenFileState
    \/ SendFileNameState
    \/ ReadAndSendFileDataState
    \/ SendNextFileState
    \/ HandleFatalErrorState
    \/ HandleFileError
    \/ TerminateState

\* ------------------------------------------- the server's accept loop

\* The environment delivers an interrupt: signal.Notify's channel takes it when
\* it has room and drops it otherwise.
Interrupt ==
    /\ wPc # "none"
    /\ ~procExited
    /\ sigCount < MaxSignals
    /\ sigCount' = sigCount + 1
    /\ sigChan' = IF sigChan < 1 THEN sigChan + 1 ELSE sigChan
    /\ UNCHANGED <<accShouldRun, sArgs, sState, sMainPc, shouldRun, sIp, sStorageDir, listener, wPc, sErr, termVia, procExited>>
    /\ UNCHANGED <<clientVars, conn, conBroken, netVars, cdVars, handlerVars>>

InitializeState ==
    /\ ~procExited
    /\ sMainPc = "run"
    /\ sState = "Initialization"
    /\ wPc' = "wait"
    /\ sState' = "ValidateArgs"
    /\ UNCHANGED <<accShouldRun, sArgs, sMainPc, shouldRun, sIp, sStorageDir, listener, sigChan, sigCount, sErr, termVia, procExited>>
    /\ UNCHANGED <<clientVars, conn, conBroken, netVars, cdVars, handlerVars>>

ServerValidateArgsState ==
    /\ ~procExited
    /\ sMainPc = "run"
    /\ sState = "ValidateArgs"
    /\ IF Len(sArgs) # arguments
       THEN /\ sErr' = "args"
            /\ sState' = "FatalError"
            /\ UNCHANGED <<sIp, sStorageDir>>
       ELSE /\ sIp' = sArgs[1]
            /\ sStorageDir' = sArgs[3]
            /\ sState' = "ParseIP"
            /\ UNCHANGED sErr
    /\ UNCHANGED <<accShouldRun, sArgs, sMainPc, shouldRun, listener, sigChan, sigCount, wPc, termVia, procExited>>
    /\ UNCHANGED <<clientVars, conn, conBroken, netVars, cdVars, handlerVars>>

ServerParseIPState ==
    /\ ~procExited
    /\ sMainPc = "run"
    /\ sState = "ParseIP"
    /\ sIp' = IF sIp \in ColonHosts THEN "[" \o sIp \o "]" ELSE sIp
    /\ sState' = "MakeStorageDirectory"
    /\ UNCHANGED <<accShouldRun, sArgs, sMainPc, shouldRun, sStorageDir, listener, sigChan, sigCount, wPc, sErr, termVia, procExited>>
    /\ UNCHANGED <<clientVars, conn, conBroken, netVars, cdVars, handlerVars>>

\* os.Stat finds the directory, or os.Mkdir makes it, or os.Mkdir fails.
MakeStorageDirectoryState ==
    /\ ~procExited
    /\ sMainPc = "run"
    /\ sState = "MakeStorageDirectory"
    /\ \/ /\ sState' = "SetListening"
          /\ UNCHANGED sErr
       \/ /\ sErr' = "mkdir"
          /\ sState' = "FatalError"
    /\ UNCHANGED <<accShouldRun, sArgs, sMainPc, shouldRun, sIp, sStorageDir, listener, sigChan, sigCount, wPc, termVia, procExited>>
    /\ UNCHANGED <<clientVars, conn, conBroken, netVars, cdVars, handlerVars>>

SetListeningState ==
    /\ ~procExited
    /\ sMainPc = "run"
    /\ sState = "SetListening"
    /\ \/ /\ listener' = "open"
          /\ sErr' = "nil"
          /\ sState' = "Listening"
       \/ /\ listener' = "nil"
          /\ sErr' = "listen"
          /\ sState' = "FatalError"
    /\ UNCHANGED <<accShouldRun, sArgs, sMainPc, shouldRun, sIp, sStorageDir, sigChan, sigCount, wPc, termVia, procExited>>
    /\ UNCHANGED <<clientVars, conn, conBroken, netVars, cdVars, handlerVars>>

\* handleSignal, one memory access at a time: the receive from sigChan,
HandleSignalReceive ==
    /\ ~procExited
    /\ wPc = "wait"
    /\ sigChan > 0
    /\ sigChan' = sigChan - 1
    /\ wPc' = "close"
    /\ UNCHANGED <<accShouldRun, sArgs, sState, sMainPc, shouldRun, sIp, sStorageDir, listener, sigCount, sErr, termVia, procExited>>
    /\ UNCHANGED <<clientVars, conn, conBroken, netVars, cdVars, handlerVars>>

\* the Close of the listener when the field is not nil,
HandleSignalClose ==
    /\ ~procExited
    /\ wPc = "close"
    /\ listener' = IF listener # "nil" THEN "closed" ELSE listener
    /\ wPc' = "store"
    /\ UNCHANGED <<accShouldRun, sArgs, sState, sMainPc, shouldRun, sIp, sStorageDir, sigChan, sigCount, sErr, termVia, procExited>>
    /\ UNCHANGED <<clientVars, conn, conBroken, netVars, cdVars, handlerVars>>

\* the atomic store of shouldRun,
HandleSignalStore ==
    /\ ~procExited
    /\ wPc = "store"
    /\ shouldRun' = 0
    /\ wPc' = "setstate"
    /\ UNCHANGED <<accShouldRun, sArgs, sState, sMainPc, sIp, sStorageDir, listener, sigChan, sigCount, sErr, termVia, procExited>>
    /\ UNCHANGED <<clientVars, conn, conBroken, netVars, cdVars, handlerVars>>

\* and the write of currentState, which races with Run's own writes of the field:
\* it stays, or the result of the state function Run is in overwrites it.
HandleSignalSetState ==
    /\ ~procExited
    /\ wPc = "setstate"
    /\ \/ /\ sState' = "Termination"
          /\ termVia' = "watcher"
       \/ /\ sMainPc = "run"
          /\ UNCHANGED <<sState, termVia>>
    /\ wPc' = "done"
    /\ UNCHANGED <<accShouldRun, sArgs, sMainPc, shouldRun, sIp, sStorageDir, listener, sigChan, sigCount, sErr, procExited>>
    /\ UNCHANGED <<clientVars, conn, conBroken, netVars, cdVars, handlerVars>>

\* The errors listener.Accept of a TCP listener returns, each a *net.OpError
\* whose Op is "accept": the listener was closed, or the accept failed for
\* another reason (a connection aborted in the backlog, no file descriptor left).
AcceptErrors == {[opError |-> TRUE, op |-> "accept", cause |-> "closed"], [opError |-> TRUE, op |-> "accept", cause |-> "transient"]}

\* Run enters ListeningState and blocks in listener.Accept.
ListeningStateAccept ==
    /\ ~procExited
    /\ sMainPc = "run"
    /\ sState = "Listening"
    /\ sMainPc' = "accept"
    /\ UNCHANGED <<accShouldRun, sArgs, sState, shouldRun, sIp, sStorageDir, listener, sigChan, sigCount, wPc, sErr, termVia, procExited>>
    /\ UNCHANGED <<clientVars, conn, conBroken, netVars, cdVars, handlerVars>>

\* Accept returns an error and ListeningState classifies it.
ListeningStateError ==
    /\ ~procExited
    /\ sMainPc = "accept"
    /\ \E err \in AcceptErrors :
        /\ err.cause = "closed" <=> listener = "closed"
        /\ IF err.opError /\ (err.op = "accept" \/ err.op = "close")
           THEN /\ sState' = "Termination"
                /\ termVia' = "acceptError"
           ELSE /\ sState' = "Listening"
                /\ UNCHANGED termVia
    /\ sMainPc' = "run"
    /\ UNCHANGED <<accShouldRun, sArgs, shouldRun, sIp, sStorageDir, listener, sigChan, sigCount, wPc, sErr, procExited>>
    /\ UNCHANGED <<clientVars, conn, conBroken, netVars, cdVars, handlerVars>>

\* Accept returns a connection.
ListeningStateAccepted ==
    /\ ~procExited
    /\ sMainPc = "accept"
    /\ listener = "open"
    /\ conn = "backlog"
    /\ conn' = "accepted"
    /\ sMainPc' = "accepted"
    /\ accShouldRun' = shouldRun
    /\ UNCHANGED <<sArgs, sState, shouldRun, sIp, sStorageDir, listener, sigChan, sigCount, wPc, sErr, termVia, procExited>>
    /\ UNCHANGED <<clientVars, conBroken, netVars, cdVars, handlerVars>>

\* A ListeningState that spawns the handler without loading shouldRun.
ListeningStateDispatchUnchecked ==
    /\ ~procExited
    /\ sMainPc = "accepted"
    /\ sState' = "Listening"
    /\ conn' = "handled"
    /\ hState' = "ReadNumFiles"
    /\ hRunning' = TRUE
    /\ hCurrentFile' = 0
    /\ sMainPc' = "run"
    /\ UNCHANGED <<accShouldRun, sArgs, shouldRun, sIp, sStorageDir, listener, sigChan, sigCount, wPc, sErr, termVia, procExited>>
    /\ UNCHANGED <<hNumFiles, hFileName, hFileContent, hErr, hLog, hConClosed, storage, written>>
    /\ UNCHANGED <<clientVars, conBroken, netVars, cdVars>>

\* The rest of ListeningState: the load of shouldRun, then either Termination
\* (the connection is neither closed nor handled) or the spawn of the handler,
\* which NewHandleClientFSM starts in ReadNumFiles.
ListeningStateDispatch ==
    /\ ~procExited
    /\ sMainPc = "accepted"
    /\ IF shouldRun = 0
       THEN /\ sState' = "Termination"
            /\ termVia' = "shouldRun"
            /\ conn' = "dropped"
            /\ UNCHANGED <<hState, hRunning, hCurrentFile>>
       ELSE /\ sState' = "Listening"
            /\ conn' = "handled"
            /\ hState' = "ReadNumFiles"
            /\ hRunning' = TRUE
            /\ hCurrentFile' = 0
            /\ UNCHANGED termVia
    /\ sMainPc' = "run"
    /\ UNCHANGED <<accShouldRun, sArgs, shouldRun, sIp, sStorageDir, listener, sigChan, sigCount, wPc, sErr, procExited>>
    /\ UNCHANGED <<hNumFiles, hFileName, hFileContent, hErr, hLog, hConClosed, storage, written>>
    /\ UNCHANGED <<clientVars, conBroken, netVars, cdVars>>

FatalErrorState ==
    /\ ~procExited
    /\ sMainPc = "run"
    /\ sState = "FatalError"
    /\ sState' = "Termination"
    /\ termVia' = "fatalError"
    /\ UNCHANGED <<accShouldRun, sArgs, sMainPc, shouldRun, sIp, sStorageDir, listener, sigChan, sigCount, wPc, sErr, procExited>>
    /\ UNCHANGED <<clientVars, conn, conBroken, netVars, cdVars, handlerVars>>

\* TerminationState, after which Run and then main return: the process exits,
\* and with it the watcher and every handler still running.
TerminationState ==
    /\ ~procExited
    /\ sMainPc = "run"
    /\ sState = "Termination"
    /\ listener' = IF listener # "nil" THEN "closed" ELSE listener
    /\ sMainPc' = "returned"
    /\ procExited' = TRUE
    /\ UNCHANGED <<accShouldRun, sArgs, sState, shouldRun, sIp, sStorageDir, sigChan, sigCount, wPc, sErr, termVia>>
    /\ UNCHANGED <<clientVars, conn, conBroken, netVars, cdVars, handlerVars>>

ServerRun ==
    \/ InitializeState
    \/ ServerValidateArgsState
    \/ ServerParseIPState
    \/ MakeStorageDirectoryState
    \/ SetListeningState
    \/ ListeningStateAccept
    \/ ListeningStateError
    \/ ListeningStateAccepted
    \/ ListeningStateDispatch
    \/ FatalErrorState
    \/ TerminationState

handleSignal ==
    \/ HandleSignalReceive
    \/ HandleSignalClose
    \/ HandleSignalStore
    \/ HandleSignalSetState

\* ------------------------------- the server's receive state machine

\* What the handler's reader sees of the client's end of the connection.
PeerClosed == cCon = "closed"

\* os.Create truncates or creates the file; the write then replaces its content.
Store(files, name, content) == {f \in files : f.name # name} \cup {[name |-> name, content |-> content]}

ReadNumFilesState ==
    /\ ~procExited
    /\ hState = "ReadNumFiles"
    /\ \E r \in ReceiveInt(rbuf, wire, PeerClosed, conBroken, MayShort) :
        /\ shortReads' = Shorts(r.short)
        /\ hNumFiles' = r.val
        /\ hErr' = r.err
        /\ hState' = IF r.err # "nil" THEN "HandleError" ELSE "ReadFileName"
        /\ rbuf' = r.buf
        /\ wire' = r.wire
    /\ UNCHANGED <<hRunning, hCurrentFile, hFileName, hFileContent, hLog, hConClosed, storage, written>>
    /\ UNCHANGED <<rbPhase, rbSize, rbData, clientVars, conn, conBroken, cdVars, serverVars>>

\* ReadFileNameState, one reader.Read of its receiveBytes at a time.
ReadFileNameState ==
    /\ ~procExited
    /\ hState = "ReadFileName"
    /\ \E s \in ReceiveBytesStep(rbPhase, rbSize, rbData, rbuf, wire, PeerClosed, conBroken, MayShort) :
        /\ shortReads' = Shorts(s.short)
        /\ rbuf' = s.buf
        /\ wire' = s.wire
        /\ IF ~s.done
           THEN /\ rbPhase' = s.phase
                /\ rbSize' = s.size
                /\ rbData' = s.data
                /\ UNCHANGED <<hState, hErr, hFileName>>
           ELSE /\ rbPhase' = "size"
                /\ rbSize' = 0
                /\ rbData' = <<>>
                /\ IF s.err # "nil"
                   THEN /\ hErr' = s.err
                        /\ hState' = "HandleError"
                        /\ UNCHANGED hFileName
                   ELSE /\ hFileName' = s.data
                        /\ hState' = "ReadFileContent"
                        /\ UNCHANGED hErr
    /\ UNCHANGED <<hRunning, hNumFiles, hCurrentFile, hFileContent, hLog, hConClosed, storage, written>>
    /\ UNCHANGED <<clientVars, conn, conBroken, cdVars, serverVars>>

\* ReadFileContentState, one reader.Read of its receiveBytes at a time.
ReadFileContentState ==
    /\ ~procExited
    /\ hState = "ReadFileContent"
    /\ \E s \in ReceiveBytesStep(rbPhase, rbSize, rbData, rbuf, wire, PeerClosed, conBroken, MayShort) :
        /\ shortReads' = Shorts(s.short)
        /\ rbuf' = s.buf
        /\ wire' = s.wire
        /\ IF ~s.done
           THEN /\ rbPhase' = s.phase
                /\ rbSize' = s.size
                /\ rbData' = s.data
                /\ UNCHANGED <<hState, hErr, hFileContent>>
           ELSE /\ rbPhase' = "size"
                /\ rbSize' = 0
                /\ rbData' = <<>>
                /\ hFileContent' = s.data
                /\ hErr' = s.err
                /\ hState' = IF s.err # "nil" THEN "HandleError" ELSE "WriteFile"
    /\ UNCHANGED <<hRunning, hNumFiles, hCurrentFile, hFileName, hLog, hConClosed, storage, written>>
    /\ UNCHANGED <<clientVars, conn, conBroken, cdVars, serverVars>>

\* os.Create fails (always for the empty name, which names the directory), or
\* file.Write fails after a part of a content that is not empty, or the file is
\* written whole.
WriteFileState ==
    /\ ~procExited
    /\ hState = "WriteFile"
    /\ \/ /\ hErr' = "create"
          /\ hState' = "HandleError"
          /\ UNCHANGED <<storage, written, hCurrentFile>>
       \/ /\ hFileName # <<>>
          /\ \E k \in 0..(Len(hFileContent) - 1) :
              storage' = Store(storage, hFileName, Take(hFileContent, k))
          /\ hErr' = "write"
          /\ hState' = "HandleError"
          /\ UNCHANGED <<written, hCurrentFile>>
       \/ /\ hFileName # <<>>
          /\ storage' = Store(storage, hFileName, hFileContent)
          /\ written' = Append(written, [name |-> hFileName, content |-> hFileContent])
          /\ hCurrentFile' = hCurrentFile + 1
          /\ hState' = "ReceiveNextFile"
          /\ UNCHANGED hErr
    /\ UNCHANGED <<hRunning, hNumFiles, hFileName, hFileContent, hLog, hConClosed>>
    /\ UNCHANGED <<netVars, clientVars, conn, conBroken, cdVars, serverVars>>

ReceiveNextFileState ==
    /\ ~procExited
    /\ hState = "ReceiveNextFile"
    /\ hState' = IF hCurrentFile = hNumFiles THEN "Exit" ELSE "ReadFileName"
    /\ UNCHANGED <<hRunning, hNumFiles, hCurrentFile, hFileName, hFileContent, hErr, hLog, hConClosed, storage, written>>
    /\ UNCHANGED <<netVars, clientVars, conn, conBroken, cdVars, serverVars>>

\* The two Println of HandleErrorState: the first only for EOF, the second always.
HandleErrorState ==
    /\ ~procExited
    /\ hState = "HandleError"
    /\ hLog' = hLog \o (IF hErr = "EOF" THEN <<"Error: Client closed connection">> ELSE <<>>) \o <<"Error: " \o hErr>>
    /\ hState' = "Exit"
    /\ UNCHANGED <<hRunning, hNumFiles, hCurrentFile, hFileName, hFileContent, hErr, hConClosed, storage, written>>
    /\ UNCHANGED <<netVars, clientVars, conn, conBroken, cdVars, serverVars>>

\* Run's loop runs while currentState != Exit, so its case Exit, which closes the
\* connection, is never the case taken: with currentState = Exit Run returns.
HandleClientRunExit ==
    /\ ~procExited
    /\ hRunning
    /\ hState = "Exit"
    /\ LET inLoop == hState # "Exit" IN
       hConClosed' = IF inLoop THEN TRUE ELSE hConClosed
    /\ hRunning' = FALSE
    /\ UNCHANGED <<hState, hNumFiles, hCurrentFile, hFileName, hFileContent, hErr, hLog, storage, written>>
    /\ UNCHANGED <<netVars, clientVars, conn, conBroken, cdVars, serverVars>>

HandleClientRun ==
    \/ ReadNumFilesState
    \/ ReadFileNameState
    \/ ReadFileContentState
    \/ WriteFileState
    \/ ReceiveNextFileState
    \/ HandleErrorState
    \/ HandleClientRunExit

\* ------------------------------------------------------------ the system

\* NewClientFSM and NewServerFSM, no connection made yet.
Init ==
    /\ InitNet
    /\ InitIdleCodec
    /\ cArgs \in ClientArgs
    /\ cState = "ValidateArgs"
    /\ cIp = ""
    /\ cFileNames = <<>>
    /\ cCurrentFile = 0
    /\ cCon = "nil"
    /\ cFile = "nil"
    /\ cErr = "nil"
    /\ cLog = <<>>
    /\ cSent = <<>>
    /\ conn = "none"
    /\ conBroken = FALSE
    /\ sArgs \in ServerArgs
    /\ sState = "Initialization"
    /\ sMainPc = "run"
    /\ shouldRun = 1
    /\ sIp = ""
    /\ sStorageDir = ""
    /\ listener = "nil"
    /\ sigChan = 0
    /\ sigCount = 0
    /\ wPc = "none"
    /\ sErr = "nil"
    /\ termVia = "none"
    /\ procExited = FALSE
    /\ accShouldRun = -1
    /\ hState = "none"
    /\ hRunning = FALSE
    /\ hNumFiles = 0
    /\ hCurrentFile = 0
    /\ hFileName = <<>>
    /\ hFileContent = <<>>
    /\ hErr = "nil"
    /\ hLog = <<>>
    /\ hConClosed = FALSE
    /\ storage = {}
    /\ written = <<>>

Next == ClientRun \/ ServerRun \/ handleSignal \/ Interrupt \/ HandleClientRun

Spec == Init /\ [][Next]_vars

\* The client is one sequential program: ClientFSM.Run calls one state function
\* after the other, and each returns, so the client keeps taking steps until Run
\* has returned.
SpecFair == Spec /\ WF_vars(ClientRun)

\* ------------------------------------- one session with any peer

\* The server accepts connections from any program, not only from this client.
\* The i-th File Unit such a peer sends: a name and a content, each in the
\* framing of sendBytes.
PeerUnit(i) == SendBytesWire(<<96 + i>>) \o SendBytesWire(IF i % 2 = 1 THEN <<i>> ELSE <<>>)

\* What a peer writes before it closes the connection: a file count, then a
\* number of File Units that may be smaller or larger than the count.
PeerStreams == {SendIntBytes(k) \o Flatten([i \in 1..n |-> PeerUnit(i)]) : k \in 0..MaxDeclared, n \in 0..MaxPeerUnits}

\* The server listens, its accept loop has spawned the handler of a connection
\* and is back in Accept; the peer has written its stream and closed its end
\* (cCon stands for the peer's end of the connection).
InitSession ==
    /\ wire \in PeerStreams
    /\ rbuf = <<>> /\ rbPhase = "size" /\ rbSize = 0 /\ rbData = <<>> /\ shortReads = 0
    /\ InitIdleCodec
    /\ cArgs = <<>> /\ cState = "Returned" /\ cIp = "" /\ cFileNames = <<>> /\ cCurrentFile = 0
    /\ cCon = "closed" /\ cFile = "nil" /\ cErr = "nil" /\ cLog = <<>> /\ cSent = <<>>
    /\ conn = "handled" /\ conBroken = FALSE
    /\ sArgs = <<"::1", "9000", "store">> /\ sState = "Listening" /\ sMainPc = "accept" /\ shouldRun = 1
    /\ sIp = "[::1]" /\ sStorageDir = "store" /\ listener = "open" /\ sigChan = 0 /\ sigCount = 0
    /\ wPc = "wait" /\ sErr = "nil" /\ termVia = "none" /\ procExited = FALSE /\ accShouldRun = 1
    /\ hState = "ReadNumFiles" /\ hRunning = TRUE /\ hNumFiles = 0 /\ hCurrentFile = 0
    /\ hFileName = <<>> /\ hFileContent = <<>> /\ hErr = "nil" /\ hLog = <<>> /\ hConClosed = FALSE
    /\ storage = {} /\ written = <<>>

NextSession == HandleClientRun

SpecSession == InitSession /\ [][NextSession]_vars

\* ------------------------------------------------------------ the claims

\* The files of the command line, whatever the client has parsed of it so far.
Batch == SubSeq(cArgs, 3, Len(cArgs))

\* The File Unit of the i-th file of the batch, as the server is to store it.
UnitOf(i) == [name |-> BaseName(Batch[i]), content |-> FileData(Batch[i])]

\* The files whose content blob the client wrote completely, in wire order.
RECURSIVE ContentFiles(_)
ContentFiles(sent) == IF sent = <<>> THEN <<>> ELSE (IF Head(sent).kind = "content" THEN <<Head(sent).file>> ELSE <<>>) \o ContentFiles(Tail(sent))

\* The session saw the whole stream: it ended in Exit after the client had
\* returned, without a failure of the connection or of the storage.
SessionFinished == hState = "Exit" /\ cState = "Returned" /\ hErr \in {"nil", "EOF"}

\* C1: round trip. Once the server session has finished, the storage holds, for
\* every File Unit (N, C) the client sent, the file N with exactly the bytes C.
C1_RoundTrip ==
    SessionFinished => \A i \in 1..Len(cSent) : cSent[i].kind = "content" => UnitOf(cSent[i].file) \in storage

\* C2: count invariant. For a batch of k files that all open and are read, all
\* of them sent, the session never writes more than k files and is in Exit only
\* with its counter at k and k files written.
C2_CountInvariant ==
    LET k == Len(Batch) IN
    (\A i \in 1..k : PathKind(Batch[i]) = "file") =>
        /\ Len(written) <= k
        /\ (SessionFinished /\ Len(ContentFiles(cSent)) = k) => (hCurrentFile = k /\ Len(written) = k)

\* C3: framing invariant. A receiveBytes that returns without error after
\* sendBytes(data) returns exactly data, for every length and however the
\* stream splits the bytes over the reads.
C3_FramingInvariant == (cdMode = "bytes" /\ cdRecv = "ok") => cdVal = cdData

\* C4: shutdown. Once the watcher has handled the signal, the shutdown flag is set
\* and an accept loop blocked in Accept is blocked on a closed listening socket,
\* so that Accept fails and the loop stops through the closed-listener path.
C4_Shutdown == wPc = "done" => (shouldRun = 0 /\ (sMainPc = "accept" => listener = "closed"))

\* C5: the process exits only after every handler that was spawned has reached
\* its Exit state.
C5_HandlersFinish == procExited => hState \in {"none", "Exit"}

\* C6: EOF classification. A session that ended on EOF reported the client-closed
\* condition and not the generic error.
C6_EofClassification ==
    (hState = "Exit" /\ hErr = "EOF") => ("Error: Client closed connection" \in Range(hLog) /\ ("Error: " \o hErr) \notin Range(hLog))

\* The batch is one of C7's: base names all different, every file either opens
\* and reads or fails to open, and some file fails to open.
SkipBatch ==
    /\ \A i, j \in 1..Len(Batch) : i # j => BaseName(Batch[i]) # BaseName(Batch[j])
    /\ \A i \in 1..Len(Batch) : PathKind(Batch[i]) \in {"file", "missing"}
    /\ \E i \in 1..Len(Batch) : PathKind(Batch[i]) = "missing"

\* C7: per-file skip. With only open failures, after the client has terminated
\* and the session has exited, the storage holds exactly the files that opened,
\* each with its content, and the client printed one error per failed file and
\* one "Sent file" per opened file.
C7_PerFileSkip ==
    (SkipBatch /\ SessionFinished /\ \A i \in 1..Len(cLog) : cLog[i].line # "Fatal Error" /\ (cLog[i].line = "Error" => PathKind(Batch[cLog[i].file]) = "missing")) =>
        /\ storage = {UnitOf(i) : i \in {j \in 1..Len(Batch) : PathKind(Batch[j]) = "file"}}
        /\ \A i \in 1..Len(Batch) :
            Cardinality({n \in 1..Len(cLog) : cLog[n] = [line |-> IF PathKind(Batch[i]) = "file" THEN "Sent file" ELSE "Error", file |-> i]}) = 1

\* C8: File Unit atomicity. Every name blob on the wire is followed at once by
\* the content blob of the same file, and while a name is the last blob on the
\* wire the client does not go on to another file.
C8_FileUnitAtomic ==
    \A i \in 1..Len(cSent) : cSent[i].kind = "name" =>
        IF i < Len(cSent)
        THEN cSent[i + 1] = [kind |-> "content", file |-> cSent[i].file]
        ELSE cState \notin {"OpenFile", "SendFileName"}

\* C9: wire ordering. The blobs on the wire follow the file list, each name
\* followed by its own content before anything of another file, and the server
\* writes the File Units sent in that order.
C9_WireOrdering ==
    /\ \A i, j \in 1..Len(cSent) : i < j => cSent[i].file <= cSent[j].file
    /\ \A i \in 1..(Len(cSent) - 1) : cSent[i].kind = "name" => cSent[i + 1] = [kind |-> "content", file |-> cSent[i].file]
    /\ Len(written) <= Len(ContentFiles(cSent))
    /\ \A n \in 1..Len(written) : n <= Len(ContentFiles(cSent)) => written[n] = UnitOf(ContentFiles(cSent)[n])

\* C10: integer codec round trip. For the integers of 0 .. 2^31-1, sendInt writes
\* exactly 4 bytes, the most significant first, and a receiveInt whose read
\* returns those 4 bytes returns the integer.
C10_IntRoundTrip ==
    cdMode = "int" =>
        /\ cdWrites = <<>> =>
            /\ Len(cdWritten) = 4
            /\ cdWritten[1] = cdNum \div 16777216
            /\ cdWritten[2] = (cdNum \div 65536) % 256
            /\ cdWritten[3] = (cdNum \div 256) % 256
            /\ cdWritten[4] = cdNum % 256
        /\ (cdRecv = "ok" /\ cdGot = 4) => cdVal = cdNum

\* C10's case: the largest integer of the range went through sendInt and receiveInt.
C10_Witness == cdMode = "int" /\ cdNum = 2147483647 /\ cdWrites = <<>> /\ cdRecv = "ok" /\ cdGot = 4 /\ cdVal = cdNum

\* C11: Exit closes the connection. A receive state machine whose Run has returned
\* from the Exit state has closed its connection.
C11_ExitClosesConnection == (hState = "Exit" /\ ~hRunning) => hConClosed

\* A file of the batch fails to open: the count the client declares, sent before
\* any file is opened, is larger than the number of File Units it will send.
HasOpenFailure == \E i \in 1..Len(Batch) : PathKind(Batch[i]) = "missing"

C13_SharedState ==
    [][(wPc # "none" /\ wPc' # wPc) => UNCHANGED <<sState, sMainPc, sErr, sIp, sStorageDir, sArgs>>]_vars

\* C14: accept/shutdown race. For a connection whose Accept returned with the
\* shutdown flag already set, no receive handler is spawned, and once the accept
\* loop has left ListeningState its state is Termination.
C14_AcceptShutdownRace ==
    accShouldRun = 0 =>
        /\ hState = "none"
        /\ conn # "handled"
        /\ sMainPc # "accepted" => sState = "Termination"

\* C14's case: Accept returned a connection after the flag was set, and the accept
\* loop went to Termination without a handler.
C14_Witness == accShouldRun = 0 /\ sMainPc = "run" /\ sState = "Termination" /\ conn = "dropped" /\ hState = "none"

\* C15: accept error classification. When Accept returns an error, the accept
\* loop goes to Termination if the listener was closed and stays in Listening,
\* to call Accept again, for any other error.
C15_AcceptErrorClassification ==
    [][(sMainPc = "accept" /\ sMainPc' = "run") => sState' = (IF listener = "closed" THEN "Termination" ELSE "Listening")]_vars

\* The client is in HandleFatalError or has been through it.
ClientFatal == cState = "HandleFatalError" \/ \E i \in 1..Len(cLog) : cLog[i].line = "Fatal Error"

\* C16: client fatal errors. From HandleFatalError on, the client writes nothing
\* to the stream (the bytes in flight only leave it), attempts no further file
\* and goes from HandleFatalError to Terminate and nowhere else; Terminate leaves
\* a connection that was made closed, and after it nothing of the client changes.
C16_ClientFatalErrors ==
    [][/\ ClientFatal =>
            /\ cSent' = cSent
            /\ Len(wire') <= Len(wire) /\ wire' = Drop(wire, Len(wire) - Len(wire'))
            /\ cCurrentFile' = cCurrentFile
            /\ cState' \in {"HandleFatalError", "Terminate", "Returned"}
       /\ cState = "HandleFatalError" => cState' \in {"HandleFatalError", "Terminate"}
       /\ cState = "Terminate" => cState' \in {"Terminate", "Returned"}
       /\ (cState = "Terminate" /\ cState' = "Returned") => cCon' = (IF cCon = "nil" THEN "nil" ELSE "closed")
       /\ cState = "Returned" => UNCHANGED clientVars]_vars

\* C16's case: sending the first of two files failed; the client has terminated
\* with the connection closed and the second file not attempted.
C16_Witness ==
    /\ cState = "Returned" /\ cErr = "send" /\ cCon = "closed"
    /\ Len(cFileNames) = 2 /\ cCurrentFile = 0 /\ cSent # <<>>
    /\ \E i \in 1..Len(cLog) : cLog[i].line = "Fatal Error"

\* C17: receiveInt returns without error only after its read obtained the 4 bytes
\* of the integer, and then returns the integer that was sent.
C17_ReceiveIntExact == (cdMode = "int" /\ cdRecv = "ok") => (cdGot = 4 /\ cdVal = cdNum)

\* C18: a connection that Accept returned is handed to a receive handler or
\* closed by the server; it is never dropped with neither done.
C18_AcceptedHandledOrClosed == conn # "dropped"

\* The cursor is within the file list, and within its files in the states that
\* index the list with it.
CursorInBounds ==
    /\ cCurrentFile \in 0..Len(cFileNames)
    /\ cState \in {"OpenFile", "SendFileName", "ReadAndSendFileData"} => cCurrentFile < Len(cFileNames)

\* Run enters OpenFile only for a file it has not attempted before: one that has
\* no line in the client's output and nothing on the wire.
OpenFileOnce ==
    (cState' = "OpenFile" /\ cState # "OpenFile") =>
        /\ cCurrentFile' < Len(cFileNames')
        /\ \A n \in 1..Len(cLog') : cLog'[n].file # cCurrentFile' + 1
        /\ \A n \in 1..Len(cSent') : cSent'[n].file # cCurrentFile' + 1

\* C19: client cursor bounds and termination. In every client run currentFile
\* stays within 0 .. len(fileNames), the states that open, name and send a file
\* are entered with currentFile < len(fileNames), no file is attempted twice, and
\* whatever the outcomes of open, read and send the client reaches Terminate.
C19_ClientCursorTermination == []CursorInBounds /\ [][OpenFileOnce]_vars /\ <>(cState = "Terminate")

\* C19's case: a run over two files, the first failing to open and the second
\* sent, has gone through the whole list and reached Terminate.
C19_Witness ==
    /\ cState = "Terminate" /\ Len(cFileNames) = 2 /\ cCurrentFile = 2
    /\ \E n \in 1..Len(cLog) : cLog[n] = [line |-> "Error", file |-> 1]
    /\ \E n \in 1..Len(cLog) : cLog[n] = [line |-> "Sent file", file |-> 2]

\* C20: whatever the peer does, a session that read the file count k has written
\* at most k files, and its counter is the number of files it has written.
C20_AtMostDeclared ==
    (hState \notin {"none", "ReadNumFiles"} /\ hNumFiles >= 0) => (Len(written) <= hNumFiles /\ hCurrentFile = Len(written))

====
